---- MODULE Spec2Model ----
(***************************************************************************)
(* The analysis pipeline of the credit-suitability copilot: the            *)
(* SuitabilityProvider context (runAnalysis, cancelAnalysis, clearSession, *)
(* the progress ticker and the auto-advance timer) together with the three *)
(* Gemini collaborators it awaits.                                         *)
(*                                                                         *)
(* One action is one macrotask of the JavaScript event loop: a user event, *)
(* a timer callback, or the settlement of a collaborator call followed by  *)
(* every continuation that runs before control returns to the event loop.  *)
(*                                                                         *)
(* Progress is kept in half percents (Pct(30) = 60) because the pipeline   *)
(* writes 70 + (1/2) * 25 = 82.5 for the first of two explanations.        *)
(***************************************************************************)
EXTENDS Integers, Sequences, FiniteSets, TLC

\* ------------------------------------------------------------------ bounds
\* Runs started in one behaviour of Spec, and of SpecRace.
MaxRuns == 1
RaceRuns == 2
\* Ticker callbacks that advance progress in one behaviour of Spec and SpecRace.
MaxTicks == 1
\* Uploaded documents, and entries in a validator response.
MaxFiles == 1
\* Runs started in one behaviour of SpecSession.
SessionRuns == 1
\* Largest count of bounced cheques, and of late payments, in a scored profile.
MaxCount == 3
\* Times the page is loaded in one tab in SpecReload, the first load included.
MaxLoads == 2

\* --------------------------------------------------------------- constants
Pct(x) == 2 * x

Null == <<>>

Kinds == {"INDIVIDUAL", "SME"}

\* manualData is a Partial<CustomerProfile>: its customerType may hold
\* undefined, which every read of it in the pipeline takes as falsy.
NoKind == ""

Slots == {"PAYSLIP"}

PendingText == "Pending AI generation..."
GeneratedText == "generated text"
GenerationFailedText == "Explanation generation failed."
CouldNotGenerateText == "Could not generate explanation."

\* The message of new Error(""): a text of one part without a character.
EmptyMsg == <<"">>
CancelledMsg == <<"Cancelled">>
GenericMsg == <<"Analysis failed. Please try again.">>
ApiKeyMsg == <<"Invalid or missing API Key.">>
BadRequestMsg == <<"Bad Request: The AI could not process these documents.">>
ServerErrorMsg == <<"Server Error: Gemini is currently experiencing issues.">>

DEMO_PRODUCTS ==
    << [id |-> "prod_cc_001", targetCustomerType |-> "INDIVIDUAL"],
       [id |-> "prod_pl_001", targetCustomerType |-> "INDIVIDUAL"],
       [id |-> "prod_sme_001", targetCustomerType |-> "SME"],
       [id |-> "prod_sme_002", targetCustomerType |-> "SME"] >>

INITIAL_PROFILE == [customerType |-> "INDIVIDUAL", data |-> 0]

\* A text is the sequence of its parts; a category marker is a part of its
\* own.  The default manualData has no name, which a template literal
\* renders as the text undefined.
NoName == <<"undefined">>

DefaultManualData == [customerType |-> "INDIVIDUAL", name |-> NoName]

\* ------------------------------------------------------------------- state
\* ticked is the run whose progress ticker fired in the last step and found
\* the run current, and 0 after every other step: the callback leaves the
\* run's record as it is, and at 95 it leaves progress as it is too.
VARIABLES
    step, manualData, files, profile, evaluations,
    analysisStatus, progress, error,
    currentRunId,
    now,
    runs,
    nStarted,
    runLimit,
    ticksLeft,
    risk,
    lastActiveTimestamp,
    sessionStorage,
    ticked

vars == << step, manualData, files, profile, evaluations, analysisStatus,
           progress, error, currentRunId, now, runs, nStarted, runLimit,
           ticksLeft, risk, lastActiveTimestamp, sessionStorage,
           ticked >>

Max(a, b) == IF a >= b THEN a ELSE b

\* The runs that can be started in this behaviour.
RunIx == 1 .. runLimit

\* ------------------------------------------------------------ pure helpers
Min(a, b) == IF a <= b THEN a ELSE b

RECURSIVE Flatten(_)
Flatten(ss) ==
    IF ss = <<>> THEN <<>> ELSE Head(ss) \o Flatten(Tail(ss))

Includes(msg, marker) == \E i \in DOMAIN msg : msg[i] = marker

\* The issue strings one documentValidations entry contributes; manual is
\* the manualData the run captured when it was started.  The fallback texts
\* carry the declared name and what the validator detected.
EntryIssues(v, manual) ==
    IF (~v.nameMatchesDeclared) \/ (~v.typeMatchesSlot)
    THEN IF Len(v.issues) > 0
         THEN v.issues
         ELSE (IF ~v.nameMatchesDeclared
               THEN << <<"Name mismatch in", v.slotKey, "Expected">>
                       \o manual.name \o <<"found">> \o v.detectedName >>
               ELSE <<>>)
              \o
              (IF ~v.typeMatchesSlot
               THEN << <<"Type mismatch in", v.slotKey, "Expected">>
                       \o v.expectedDocType \o <<"found">>
                       \o v.detectedDocType >>
               ELSE <<>>)
    ELSE <<>>

ValidationErrors(resp, manual) ==
    Flatten([i \in DOMAIN resp |-> EntryIssues(resp[i], manual)])

\* "Document Validation Failed:" followed by one bulleted line per issue.
ValidationMessage(errs) ==
    <<"Document Validation Failed:">>
    \o Flatten([i \in DOMAIN errs |-> <<"bullet">> \o errs[i]])

\* The message the catch block commits for a thrown value that is neither
\* null nor undefined.
Classify(err) ==
    IF ~err.isError THEN GenericMsg
    ELSE LET m0 == err.message
             m1 == IF Includes(m0, "API key") THEN ApiKeyMsg ELSE m0
             m2 == IF Includes(m1, "400") THEN BadRequestMsg ELSE m1
             m3 == IF Includes(m2, "500") THEN ServerErrorMsg ELSE m2
         IN  m3

\* extractProfileFromDocs: the manual identity fields win over the extracted ones.
MergeProfile(manual, extracted) ==
    [extracted EXCEPT
        !.customerType = IF manual.customerType # NoKind
                         THEN manual.customerType
                         ELSE extracted.customerType]

\* manualData.customerType || "INDIVIDUAL": the kind validateDocuments is
\* called with.
ValidatorKind(manual) ==
    IF manual.customerType # NoKind THEN manual.customerType
    ELSE "INDIVIDUAL"

\* A selection that keeps the whole catalog whatever the customer kind; C24
\* tells it from the real one.
AllProducts(p) == DEMO_PRODUCTS

RelevantProducts(p) ==
    SelectSeq(DEMO_PRODUCTS,
              LAMBDA q : q.targetCustomerType = "BOTH"
                         \/ q.targetCustomerType = p.customerType)

\* evaluateProductForProfile, as far as the pipeline reads it: the product,
\* the profile the score was computed from, and the two pending explanations.
EvaluateProductForProfile(p, q) ==
    [productId |-> q.id,
     scored |-> p.data,
     customerExplanation |-> PendingText,
     advisorExplanation |-> PendingText]

\* Scored results that already carry generated text when they are
\* published; C11 tells them from the pending ones.
InitialEvalsExplained(p) ==
    LET rel == RelevantProducts(p)
    IN  [i \in DOMAIN rel |->
            [EvaluateProductForProfile(p, rel[i]) EXCEPT
                !.customerExplanation = GeneratedText,
                !.advisorExplanation = GeneratedText]]

InitialEvals(p) ==
    LET rel == RelevantProducts(p)
    IN  [i \in DOMAIN rel |-> EvaluateProductForProfile(p, rel[i])]

\* A generateExplanations whose catch block hands back the pending text
\* instead of the fallback text; C9 tells it from the real one.
GenerateExplanationsKeepsPending(api) ==
    IF api.threw
    THEN [customer |-> PendingText, advisor |-> PendingText]
    ELSE [customer |-> api.customer, advisor |-> api.advisor]

\* generateExplanations: what the caller receives for an API outcome.
GenerateExplanations(api) ==
    IF api.threw
    THEN [customer |-> CouldNotGenerateText, advisor |-> CouldNotGenerateText]
    ELSE [customer |-> IF api.customer # "" THEN api.customer
                       ELSE GenerationFailedText,
          advisor |-> IF api.advisor # "" THEN api.advisor
                      ELSE GenerationFailedText]

Enrich(ev, explanations) ==
    [ev EXCEPT !.customerExplanation = explanations.customer,
               !.advisorExplanation = explanations.advisor]

\* Math.min(70 + (completedItems / totalItems) * 25, 95), in half percents.
ExplanationProgress(completedItems, totalItems) ==
    Min(Pct(70) + (completedItems * Pct(25)) \div totalItems, Pct(95))

\* The ticker's updater: if (prev >= 95) return prev; return prev + 1.
TickerUpdate(prev) ==
    IF prev >= Pct(95) THEN prev ELSE prev + Pct(1)

\* ------------------------------------------------------------ risk engine
\* Ratios (debt-to-income, DSCR, utilisation, weights, thresholds) are held
\* in hundredths, as the decimal literals with up to two places that the
\* catalog and the extracted profiles carry; a profile value that is null or
\* absent, and a constraint or weight that is absent, is Missing.  Profile
\* values, limits and weights are never negative.  The hard constraints
\* compare two such literals, and the doubles of two literals are ordered as
\* the literals are; the score is computed on the doubles themselves.
Missing == -1

\* (x || 0) for a profile value.
OrZero(v) == IF v = Missing THEN 0 ELSE v

\* A limit guarded by its truthiness (constraints.minAge && ...).
Truthy(limit) == limit # Missing /\ limit # 0

\* A limit guarded by !== undefined.
Defined(limit) == limit # Missing

Reason(c, limit) == [constraint |-> c, limit |-> limit]

\* The nine hard constraints in the order the code checks them: the guard
\* on the limit, and whether the profile value fails against it.
ConstraintOrder ==
    << "minAge", "maxAge", "minMonthlyIncome", "minAverageMonthlyRevenue",
       "minBusinessAgeMonths", "maxDebtToIncome", "minDSCR",
       "maxBouncedChequesLast12Months",
       "maxLatePaymentIncidentsLast12Months" >>

ConstraintField ==
    [minAge |-> "age", maxAge |-> "age",
     minMonthlyIncome |-> "monthlyIncome",
     minAverageMonthlyRevenue |-> "averageMonthlyRevenue",
     minBusinessAgeMonths |-> "businessAgeMonths",
     maxDebtToIncome |-> "debtToIncomeRatio",
     minDSCR |-> "dscr",
     maxBouncedChequesLast12Months |-> "bouncedChequesLast12Months",
     maxLatePaymentIncidentsLast12Months |->
         "latePaymentIncidentsLast12Months"]

IsMax(c) ==
    c \in {"maxAge", "maxDebtToIncome", "maxBouncedChequesLast12Months",
           "maxLatePaymentIncidentsLast12Months"}

GuardedByUndefined(c) ==
    c \in {"maxBouncedChequesLast12Months",
           "maxLatePaymentIncidentsLast12Months"}

\* One if statement of the hard-constraint block.
Fails(c, p, q) ==
    LET limit == q.constraints[c]
        value == OrZero(p[ConstraintField[c]])
    IN  /\ IF GuardedByUndefined(c) THEN Defined(limit) ELSE Truthy(limit)
        /\ IF IsMax(c) THEN value > limit ELSE value < limit

RECURSIVE ConstraintReasons(_, _, _)
ConstraintReasons(p, q, cs) ==
    IF cs = <<>> THEN <<>>
    ELSE (IF Fails(Head(cs), p, q)
          THEN << Reason(Head(cs), q.constraints[Head(cs)]) >>
          ELSE <<>>)
         \o ConstraintReasons(p, q, Tail(cs))

\* ------------------------------------------------ IEEE-754 double numbers
\* Natural numbers of any size: sequences of limbs below Base, least
\* significant limb first.
Base == 32768

Limb(a, i) == IF i \in DOMAIN a THEN a[i] ELSE 0

Zeros(n) == [i \in 1 .. n |-> 0]

\* The index of the most significant non-zero limb, 0 for the number 0.
Top(a) ==
    IF \A i \in DOMAIN a : a[i] = 0 THEN 0
    ELSE CHOOSE i \in DOMAIN a :
             a[i] # 0 /\ \A j \in DOMAIN a : j > i => a[j] = 0

Trim(a) == SubSeq(a, 1, Top(a))

BitLenLimb(x) == Cardinality({k \in 0 .. 14 : 2 ^ k <= x})

BitLenAt(a, t) == IF t = 0 THEN 0 ELSE (t - 1) * 15 + BitLenLimb(a[t])

BitLen(a) == BitLenAt(a, Top(a))

CmpAt(a, b, i) ==
    IF i = 0 THEN 0 ELSE IF Limb(a, i) > Limb(b, i) THEN 1 ELSE -1

\* -1, 0, 1 as a < b, a = b, a > b: the most significant limb that differs
\* decides.
BCmp(a, b) ==
    CmpAt(a, b, Top([i \in 1 .. Max(Len(a), Len(b)) |->
                        IF Limb(a, i) = Limb(b, i) THEN 0 ELSE 1]))

\* The carry into limb i of a + b.
CarryIn(a, b, i) ==
    \E j \in 1 .. i - 1 :
        /\ Limb(a, j) + Limb(b, j) >= Base
        /\ \A k \in j + 1 .. i - 1 : Limb(a, k) + Limb(b, k) = Base - 1

BAdd(a, b) ==
    Trim([i \in 1 .. Max(Len(a), Len(b)) + 1 |->
             (Limb(a, i) + Limb(b, i)
              + (IF CarryIn(a, b, i) THEN 1 ELSE 0)) % Base])

\* The borrow from limb i of a - b.
BorrowIn(a, b, i) ==
    \E j \in 1 .. i - 1 :
        /\ Limb(a, j) < Limb(b, j)
        /\ \A k \in j + 1 .. i - 1 : Limb(a, k) = Limb(b, k)

\* a - b for a >= b
BSub(a, b) ==
    Trim([i \in 1 .. Len(a) |->
             (Limb(a, i) - Limb(b, i)
              - (IF BorrowIn(a, b, i) THEN 1 ELSE 0)) % Base])

\* The number whose digits d, each below Base * Base, overflow a limb.
Carried(d) ==
    BAdd([i \in DOMAIN d |-> d[i] % Base],
         <<0>> \o [i \in DOMAIN d |-> d[i] \div Base])

\* a * k for k < Base
BMulSmall(a, k) == Carried([i \in DOMAIN a |-> a[i] * k])

RECURSIVE Sum(_, _)
Sum(f, n) == IF n = 0 THEN 0 ELSE f[n] + Sum(f, n - 1)

\* a * b, column by column: column c collects the low halves of the limb
\* products a[i] * b[c + 1 - i] and the high halves of a[i] * b[c - i].
BMul(a, b) ==
    Carried([c \in 1 .. Len(a) + Len(b) |->
                Sum([i \in DOMAIN a |->
                        ((a[i] * Limb(b, c + 1 - i)) % Base)
                        + ((a[i] * Limb(b, c - i)) \div Base)],
                    Len(a))])

\* a * 2^k
BShl(a, k) ==
    Zeros(k \div 15)
    \o Trim([i \in 1 .. Len(a) + 1 |->
                ((Limb(a, i) % 2 ^ (15 - (k % 15))) * 2 ^ (k % 15))
                + (Limb(a, i - 1) \div 2 ^ (15 - (k % 15)))])

\* a \div 2^k
BShr(a, k) ==
    Trim([i \in 1 .. Len(a) - (k \div 15) |->
             (Limb(a, i + (k \div 15)) \div 2 ^ (k % 15))
             + (Limb(a, i + (k \div 15) + 1) % 2 ^ (k % 15))
               * 2 ^ (15 - (k % 15))])

\* n % 2^k
BMod(n, k) ==
    SubSeq(n, 1, k \div 15) \o <<Limb(n, (k \div 15) + 1) % 2 ^ (k % 15)>>

\* 2^k
BPow2(k) == Zeros(k \div 15) \o <<2 ^ (k % 15)>>

\* The quotient q of a division by 2^k (k > 0) rounded to the nearest
\* integer, where half says how the remainder compares with 2^(k-1): a tie
\* goes up when tieUp, otherwise to the even neighbour.  sticky tells that
\* the dividend stands for a number slightly above it.
Rounded(q, half, sticky, tieUp) ==
    IF \/ half > 0
       \/ half = 0 /\ (sticky \/ tieUp \/ Limb(q, 1) % 2 = 1)
    THEN BAdd(q, <<1>>)
    ELSE q

\* n / 2^k (k > 0) rounded to the nearest integer.
RoundShift(n, k, sticky, tieUp) ==
    Rounded(BShr(n, k), BCmp(BMod(n, k), BPow2(k - 1)), sticky, tieUp)

\* A double is sign * mant * 2^exp with mant a number of exactly 53 bits in
\* four limbs, or 0.  Subnormal numbers, infinities and NaN do not occur in
\* the engine: its numbers lie between 1e-3 and 1e5 and it never divides
\* by 0.
DZero == [sign |-> 1, exp |-> 0, mant |-> <<0, 0, 0, 0>>]

Mant(a) == << Limb(a, 1), Limb(a, 2), Limb(a, 3), Limb(a, 4) >>

IsZero(x) == x.mant = <<0, 0, 0, 0>>

\* sign * q * 2^e for a number q of 53 bits, or of 54 bits after a
\* rounding that carried into a new bit.
Renormalized(sign, q, e) ==
    IF BitLen(q) = 54
    THEN [sign |-> sign, exp |-> e + 1, mant |-> Mant(BShr(q, 1))]
    ELSE [sign |-> sign, exp |-> e, mant |-> Mant(q)]

\* The double nearest to sign * n * 2^e, ties to even, for a number n of
\* len bits.
RoundBits(sign, n, e, sticky, len) ==
    IF len = 0 THEN DZero
    ELSE IF len <= 53
    THEN [sign |-> sign, exp |-> e - (53 - len),
          mant |-> Mant(BShl(n, 53 - len))]
    ELSE Renormalized(sign, RoundShift(n, len - 53, sticky, FALSE),
                      e + (len - 53))

\* The double nearest to sign * n * 2^e, ties to even.
RoundToDouble(sign, n, e, sticky) == RoundBits(sign, n, e, sticky, BitLen(n))

DNeg(x) == IF IsZero(x) THEN x ELSE [x EXCEPT !.sign = -x.sign]

\* x + y for the significands nx and ny of x and y at the common exponent
\* e, where c compares nx with ny.
AddCompared(x, y, nx, ny, e, c) ==
    RoundToDouble(IF x.sign = y.sign \/ c > 0 THEN x.sign ELSE y.sign,
                  IF x.sign = y.sign THEN BAdd(nx, ny)
                  ELSE BSub(IF c >= 0 THEN nx ELSE ny,
                            IF c >= 0 THEN ny ELSE nx),
                  e, FALSE)

AddAligned(x, y, nx, ny, e) == AddCompared(x, y, nx, ny, e, BCmp(nx, ny))

AddAt(x, y, e) ==
    AddAligned(x, y, BShl(x.mant, x.exp - e), BShl(y.mant, y.exp - e), e)

\* x + y
DAdd(x, y) ==
    IF IsZero(x) THEN y
    ELSE IF IsZero(y) THEN x
    ELSE AddAt(x, y, Min(x.exp, y.exp))

\* x - y
DSub(x, y) == DAdd(x, DNeg(y))

\* x * y
DMul(x, y) ==
    IF IsZero(x) \/ IsZero(y) THEN DZero
    ELSE RoundToDouble(x.sign * y.sign, BMul(x.mant, y.mant),
                       x.exp + y.exp, FALSE)

\* The largest digit q <= qhat with v * q <= r.
RECURSIVE Digit(_, _, _)
Digit(r, v, qhat) ==
    IF BCmp(BMulSmall(v, qhat), r) <= 0 THEN qhat ELSE Digit(r, v, qhat - 1)

\* The digit q of a long division and what remains of r.
Divided(r, v, q) == [digit |-> q, rem |-> Mant(BSub(r, BMulSmall(v, q)))]

\* One step of long division for a number r of five limbs below v * Base:
\* the limb r / v, estimated from the leading limbs, and what remains.
DivStep(r, v) ==
    Divided(r, v,
            Digit(r, v, Min(Base - 1,
                            (Limb(r, 5) * Base + Limb(r, 4)) \div v[4])))

\* The first n + 1 steps of the long division u / v of two numbers of 60
\* bits: the leading bit, and n limbs.
NextStep(steps, v) ==
    Append(steps, DivStep(<<0>> \o steps[Len(steps)].rem, v))

RECURSIVE LongDivision(_, _, _)
LongDivision(u, v, n) ==
    IF n = 0
    THEN << IF BCmp(u, v) >= 0 THEN Divided(u, v, 1) ELSE Divided(u, v, 0) >>
    ELSE NextStep(LongDivision(u, v, n - 1), v)

\* x / y from the steps of the long division of the significands.
Quotient(x, y, steps) ==
    RoundToDouble(x.sign * y.sign,
                  << steps[5].digit, steps[4].digit, steps[3].digit,
                     steps[2].digit, steps[1].digit >>,
                  x.exp - y.exp - 60, Top(steps[5].rem) # 0)

\* x / y for y # 0
DDiv(x, y) ==
    IF IsZero(x) THEN DZero
    ELSE Quotient(x, y, LongDivision(Mant(BShl(x.mant, 7)),
                                     Mant(BShl(y.mant, 7)), 4))

\* -1, 0, 1 as x < y, x = y, x > y
DCmp(x, y) ==
    IF IsZero(x) /\ IsZero(y) THEN 0
    ELSE IF IsZero(x) THEN -y.sign
    ELSE IF IsZero(y) THEN x.sign
    ELSE IF x.sign # y.sign THEN x.sign
    ELSE IF x.exp # y.exp THEN (IF x.exp > y.exp THEN x.sign ELSE -x.sign)
    ELSE x.sign * BCmp(x.mant, y.mant)

DLeq(x, y) == DCmp(x, y) <= 0

\* The double of a natural number below 2^31.
DFromInt(n) ==
    RoundToDouble(1, << n % Base, (n \div Base) % Base,
                        n \div (Base * Base) >>, 0, FALSE)

\* The double a decimal literal n / scale denotes (scale a power of ten).
DFromDecimal(n, scale) == DDiv(DFromInt(n), DFromInt(scale))

\* The integer n * 2^e, halves rounded up.
FixedPoint(n, e) ==
    IF e >= 0 THEN BShl(n, e)
    ELSE IF -e > BitLen(n) THEN <<>>
    ELSE RoundShift(n, -e, FALSE, TRUE)

\* The value of a number below Base * Base.
Small(a) == Limb(a, 1) + Base * Limb(a, 2)

\* x.toFixed(2) for 0 <= x < 1e7, in hundredths: the exact value of the
\* double times 100, rounded to the nearest integer, halves up.
ToFixed2(x) ==
    IF IsZero(x) THEN 0
    ELSE Small(FixedPoint(BMulSmall(x.mant, 100), x.exp))

DOne == DFromInt(1)

\* The doubles of the literals 0.00, 0.01, ... up to 3, which the weights,
\* the thresholds and the ratios of the profiles and anchors are taken from.
TabledHundredths == 0 .. 300

Hundredths == [n \in TabledHundredths |-> DFromDecimal(n, 100)]

\* The double a number literal denotes: n / 100 for a ratio held in
\* hundredths (scale 100), n for a count or an amount (scale 1).
Double(n, scale) ==
    IF scale = 100 /\ n \in TabledHundredths THEN Hundredths[n]
    ELSE DFromDecimal(n, scale)

\* normalize(value, good, bad, higherIsBetter)
Normalize(value, good, bad, higherIsBetter) ==
    IF higherIsBetter
    THEN IF DLeq(good, value) THEN DOne
         ELSE IF DLeq(value, bad) THEN DZero
         ELSE DDiv(DSub(value, bad), DSub(good, bad))
    ELSE IF DLeq(value, good) THEN DOne
         ELSE IF DLeq(bad, value) THEN DZero
         ELSE DDiv(DSub(bad, value), DSub(bad, good))

\* The seven addScore calls, in order: weight name, profile field, the scale
\* the model holds the field's values and anchors in, good and bad anchors,
\* direction.
Metrics ==
    << [weight |-> "debtToIncome", field |-> "debtToIncomeRatio",
        scale |-> 100, good |-> 30, bad |-> 60, higherBetter |-> FALSE],
       [weight |-> "dscr", field |-> "dscr",
        scale |-> 100, good |-> 150, bad |-> 100, higherBetter |-> TRUE],
       [weight |-> "creditUtilization",
        field |-> "totalCreditCardUtilization",
        scale |-> 100, good |-> 30, bad |-> 90, higherBetter |-> FALSE],
       [weight |-> "bouncedCheques", field |-> "bouncedChequesLast12Months",
        scale |-> 1, good |-> 0, bad |-> 3, higherBetter |-> FALSE],
       [weight |-> "latePayments",
        field |-> "latePaymentIncidentsLast12Months",
        scale |-> 1, good |-> 0, bad |-> 3, higherBetter |-> FALSE],
       [weight |-> "incomeStability", field |-> "monthlyIncome",
        scale |-> 1, good |-> 10000, bad |-> 2000, higherBetter |-> TRUE],
       [weight |-> "revenueStability", field |-> "averageMonthlyRevenue",
        scale |-> 1, good |-> 50000, bad |-> 5000, higherBetter |-> TRUE] >>

\* if (weight && weight > 0)
Weighted(w) == w # Missing /\ w > 0

\* An addScore that takes the good anchor for a raw value it does not have;
\* C23 tells it from the real one.
ValueUsedOptimistic(rawValue, m) ==
    IF rawValue = Missing \/ rawValue = 0 THEN m.good ELSE rawValue

\* rawValue || (higherBetter ? bad : bad): a raw value that is missing, and
\* a raw value of 0, is replaced by the bad anchor.
ValueUsed(rawValue, m) ==
    IF rawValue = Missing \/ rawValue = 0 THEN m.bad ELSE rawValue

\* normalize(val, good, bad, higherBetter) for metric m.
NormalizeFor(val, m) ==
    Normalize(Double(val, m.scale), Double(m.good, m.scale),
              Double(m.bad, m.scale), m.higherBetter)

\* ------------------------------------------------- risk engine: inputs
ConstraintNames == {ConstraintOrder[i] : i \in DOMAIN ConstraintOrder}

WeightNames == {Metrics[i].weight : i \in DOMAIN Metrics}

NoConstraints == [c \in ConstraintNames |-> Missing]

NoWeights == [w \in WeightNames |-> Missing]

\* The catalog with its constraints, weights and thresholds.
CatalogProducts ==
    { [id |-> "prod_cc_001",
       constraints |-> [NoConstraints EXCEPT
           !["minAge"] = 21, !["minMonthlyIncome"] = 3000,
           !["maxDebtToIncome"] = 50,
           !["maxLatePaymentIncidentsLast12Months"] = 1],
       weights |-> [NoWeights EXCEPT
           !["incomeStability"] = 30, !["debtToIncome"] = 40,
           !["creditUtilization"] = 30],
       thresholds |-> [approve |-> 75, review |-> 50]],
      [id |-> "prod_pl_001",
       constraints |-> [NoConstraints EXCEPT
           !["minAge"] = 23, !["minMonthlyIncome"] = 4000,
           !["maxDebtToIncome"] = 60,
           !["maxBouncedChequesLast12Months"] = 0],
       weights |-> [NoWeights EXCEPT
           !["debtToIncome"] = 50, !["incomeStability"] = 30,
           !["latePayments"] = 20],
       thresholds |-> [approve |-> 80, review |-> 60]],
      [id |-> "prod_sme_001",
       constraints |-> [NoConstraints EXCEPT
           !["minBusinessAgeMonths"] = 24,
           !["minAverageMonthlyRevenue"] = 10000,
           !["minDSCR"] = 125,
           !["maxBouncedChequesLast12Months"] = 2],
       weights |-> [NoWeights EXCEPT
           !["revenueStability"] = 30, !["dscr"] = 40,
           !["bouncedCheques"] = 30],
       thresholds |-> [approve |-> 70, review |-> 50]],
      [id |-> "prod_sme_002",
       constraints |-> [NoConstraints EXCEPT
           !["minBusinessAgeMonths"] = 6,
           !["minAverageMonthlyRevenue"] = 2000],
       weights |-> [NoWeights EXCEPT
           !["revenueStability"] = 50, !["creditUtilization"] = 50],
       thresholds |-> [approve |-> 60, review |-> 40]] }

\* Products an advisor can configure besides the catalog: one with all nine
\* constraints and the weights 0.1, 0.2 and 0.3, one whose limits are 0,
\* one with neither constraints nor weights, and one whose thresholds are 0.
ConfiguredProducts ==
    { [id |-> "all_constraints",
       constraints |-> [NoConstraints EXCEPT
           !["minAge"] = 21, !["maxAge"] = 25,
           !["minMonthlyIncome"] = 4000,
           !["minAverageMonthlyRevenue"] = 10000,
           !["minBusinessAgeMonths"] = 24,
           !["maxDebtToIncome"] = 50, !["minDSCR"] = 125,
           !["maxBouncedChequesLast12Months"] = 1,
           !["maxLatePaymentIncidentsLast12Months"] = 1],
       weights |-> [NoWeights EXCEPT
           !["debtToIncome"] = 10, !["creditUtilization"] = 20,
           !["bouncedCheques"] = 30],
       thresholds |-> [approve |-> 75, review |-> 50]],
      [id |-> "zero_limits",
       constraints |-> [NoConstraints EXCEPT
           !["maxAge"] = 0, !["maxDebtToIncome"] = 0,
           !["maxBouncedChequesLast12Months"] = 0,
           !["maxLatePaymentIncidentsLast12Months"] = 0],
       weights |-> [NoWeights EXCEPT
           !["bouncedCheques"] = 50, !["latePayments"] = 50],
       thresholds |-> [approve |-> 75, review |-> 50]],
      [id |-> "unconstrained",
       constraints |-> NoConstraints,
       weights |-> [NoWeights EXCEPT !["creditUtilization"] = 0],
       thresholds |-> [approve |-> 75, review |-> 50]],
      [id |-> "zero_thresholds",
       constraints |-> [NoConstraints EXCEPT !["minAge"] = 21],
       weights |-> [NoWeights EXCEPT !["debtToIncome"] = 100],
       thresholds |-> [approve |-> 0, review |-> 0]] }

RiskProducts == CatalogProducts \cup ConfiguredProducts

Counts == {Missing} \cup (0 .. MaxCount)

\* Profiles of an individual (the business fields are missing) and of a
\* business (the personal fields are missing).  An income of 7280 with a
\* debt-to-income ratio of 0.18 and a utilisation of 0.60 scores 0.748
\* against prod_cc_001, just below its approve threshold.
IndividualProfiles ==
    [age : {Missing, 20, 30},
     monthlyIncome : {Missing, 3000, 6000, 7280, 12000},
     averageMonthlyRevenue : {Missing},
     businessAgeMonths : {Missing},
     debtToIncomeRatio : {Missing, 0, 18, 45, 70},
     dscr : {Missing},
     bouncedChequesLast12Months : Counts,
     latePaymentIncidentsLast12Months : Counts,
     totalCreditCardUtilization : {Missing, 0, 60}]

BusinessProfiles ==
    [age : {Missing},
     monthlyIncome : {Missing},
     averageMonthlyRevenue : {Missing, 1000, 27500, 50000},
     businessAgeMonths : {Missing, 12, 36},
     debtToIncomeRatio : {Missing},
     dscr : {Missing, 110, 150},
     bouncedChequesLast12Months : Counts,
     latePaymentIncidentsLast12Months : {Missing},
     totalCreditCardUtilization : {Missing, 0, 60}]

RiskProfiles == IndividualProfiles \cup BusinessProfiles

\* ------------------------------------------------ risk engine: scoring
\* The values of metric m that an addScore call can meet in the profiles
\* above, with the two anchors.
MetricValues(m) ==
    ({p[m.field] : p \in RiskProfiles} \ {Missing}) \cup {m.good, m.bad}

MetricSet == {Metrics[i] : i \in DOMAIN Metrics}

\* NormalizeFor, computed once for each of these values.
Normalized ==
    [m \in MetricSet |-> [val \in MetricValues(m) |-> NormalizeFor(val, m)]]

\* const s = normalize(val, good, bad, higherBetter)
NormalizedValue(val, m) ==
    IF m \in MetricSet /\ val \in MetricValues(m)
    THEN Normalized[m][val]
    ELSE NormalizeFor(val, m)

\* The normalized value addScore computes for metric m of profile p.
MetricScore(p, m) == NormalizedValue(ValueUsed(p[m.field], m), m)

\* An addScore call whose weight does not pass the guard.
NoCall == [weight |-> Missing, val |-> Missing]

\* What the seven addScore calls of an evaluation compute with: the weight
\* and the value val of each call that passes the guard on the weight.
ScoreCalls(p, q) ==
    [i \in DOMAIN Metrics |->
        LET w == q.weights[Metrics[i].weight]
        IN  IF Weighted(w)
            THEN [weight |-> w,
                  val |-> ValueUsed(p[Metrics[i].field], Metrics[i])]
            ELSE NoCall]

\* totalScore += s * weight; totalWeight += weight
Added(totals, s, weight) ==
    [totalScore |-> DAdd(totals.totalScore, DMul(s, weight)),
     totalWeight |-> DAdd(totals.totalWeight, weight)]

\* addScore
AddScore(totals, call, m) ==
    IF Weighted(call.weight)
    THEN Added(totals, NormalizedValue(call.val, m),
               Double(call.weight, 100))
    ELSE totals

\* totalScore and totalWeight at the start and after each of the first n
\* addScore calls.
RECURSIVE Totals(_, _)
Totals(calls, n) ==
    IF n = 0 THEN << [totalScore |-> DZero, totalWeight |-> DZero] >>
    ELSE LET before == Totals(calls, n - 1)
         IN  Append(before, AddScore(before[n], calls[n], Metrics[n]))

\* totalWeight > 0 ? totalScore / totalWeight : 0
Mean(totals) ==
    IF DCmp(totals.totalWeight, DZero) > 0
    THEN DDiv(totals.totalScore, totals.totalWeight)
    ELSE DZero

\* finalScore, from the seven addScore calls.
FinalScoreOf(calls) == Mean(Totals(calls, Len(Metrics))[Len(Metrics) + 1])

\* The calls of each profile and product above.
TabledCalls == {ScoreCalls(p, q) : p \in RiskProfiles, q \in RiskProducts}

\* FinalScoreOf, computed once for each of these.
FinalScores == [calls \in TabledCalls |-> FinalScoreOf(calls)]

FinalScore(p, q) ==
    LET calls == ScoreCalls(p, q)
    IN  IF calls \in TabledCalls THEN FinalScores[calls]
        ELSE FinalScoreOf(calls)

BorderlineReason == Reason("Borderline Score", Missing)
LowScoreReason == Reason("Low Score", Missing)

\* The decision block: DECLINE when a constraint failed, otherwise by the
\* thresholds on finalScore.
Decision(eligible, finalScore, approve, review) ==
    IF ~eligible THEN "DECLINE"
    ELSE IF DLeq(approve, finalScore) THEN "APPROVE"
    ELSE IF DLeq(review, finalScore) THEN "REVIEW"
    ELSE "DECLINE"

\* The returned object.  finalScore is the double the decision was taken
\* from, before it is rounded for the report.
Result(q, failed, finalScore, decision) ==
    [productId |-> q.id,
     eligible |-> failed = <<>>,
     decision |-> decision,
     score |-> ToFixed2(finalScore),
     finalScore |-> finalScore,
     reasons |-> IF failed # <<>> THEN failed
                 ELSE IF decision = "APPROVE" THEN <<>>
                 ELSE IF decision = "REVIEW" THEN <<BorderlineReason>>
                 ELSE <<LowScoreReason>>,
     summary |-> IF failed # <<>>
                 THEN <<"Failed requirements:", failed[1]>>
                 ELSE IF decision = "APPROVE"
                 THEN <<"Meets all criteria with a strong score.">>
                 ELSE IF decision = "REVIEW"
                 THEN <<"Meets minimums but score indicates moderate risk.">>
                 ELSE <<"Score below approval threshold.">>,
     customerExplanation |-> PendingText,
     advisorExplanation |-> PendingText]

\* Decision and result for the reasons of the constraints that failed and
\* for finalScore.
Decided(q, failed, finalScore) ==
    Result(q, failed, finalScore,
           Decision(failed = <<>>, finalScore,
                    Double(q.thresholds.approve, 100),
                    Double(q.thresholds.review, 100)))

\* evaluateProductForProfile in full: eligibility, decision, the reported
\* score in hundredths, reasons and summary.
EvaluateProduct(p, q) ==
    Decided(q, ConstraintReasons(p, q, ConstraintOrder), FinalScore(p, q))

NoResult ==
    [productId |-> "", eligible |-> FALSE, decision |-> "", score |-> 0,
     finalScore |-> DZero, reasons |-> <<>>, summary |-> <<>>,
     customerExplanation |-> "", advisorExplanation |-> ""]

\* No evaluation is being looked at.
NoRisk == [stage |-> "none"]

\* ------------------------------------------------- collaborator outcomes
\* The issue texts the validator writes; the second one reads like
\* "Salary of 4000 not found" and so contains the characters 400.
IssueTexts == {<<"issue">>, <<"Salary of", "400", "0 not found">>}

\* Names the user declares on the form; the second one reads "Shop 400".
Names == {<<"Shop ", "400">>}

\* What the validator read from a document: a name and a document type
\* without a category marker, and ones like "Unit 500 LLC" and
\* "API key sheet".
PlainEntries ==
    [slotKey : Slots,
     nameMatchesDeclared : BOOLEAN,
     typeMatchesSlot : BOOLEAN,
     issues : {<<>>} \cup {<<t>> : t \in IssueTexts},
     detectedName : {<<"A">>},
     expectedDocType : {<<"PAYSLIP">>},
     detectedDocType : {<<"PAYSLIP">>}]

MarkedEntries ==
    {[v EXCEPT !.detectedName = <<"Unit ", "500", " LLC">>] :
        v \in {w \in PlainEntries :
                  ~w.nameMatchesDeclared /\ w.typeMatchesSlot
                  /\ w.issues = <<>>}}
    \cup
    {[v EXCEPT !.detectedDocType = <<"API key", " sheet">>] :
        v \in {w \in PlainEntries :
                  w.nameMatchesDeclared /\ ~w.typeMatchesSlot
                  /\ w.issues = <<>>}}

ValidationEntries == PlainEntries \cup MarkedEntries

\* The documentValidations array the validator's response carries.  The
\* prompt asks for one entry per uploaded document, in order; the response
\* schema fixes the shape of an entry but not how many there are.
ValidationResponses ==
    {<<>>} \cup {<<v>> : v \in ValidationEntries}
    \cup (IF MaxFiles >= 2
          THEN {<<v, w>> : v \in ValidationEntries, w \in ValidationEntries}
          ELSE {})

\* What a collaborator call rejects with: an Error whose message holds a
\* category marker, one with another message, one with the pipeline's own
\* "Cancelled", one with no message at all, a value that is not an Error,
\* and null or undefined.
ThrownValues ==
    {[isError |-> TRUE, nullish |-> FALSE, message |-> <<"API key">>],
     [isError |-> TRUE, nullish |-> FALSE, message |-> EmptyMsg],
     [isError |-> TRUE, nullish |-> FALSE, message |-> <<"network">>],
     [isError |-> TRUE, nullish |-> FALSE, message |-> CancelledMsg],
     [isError |-> FALSE, nullish |-> FALSE, message |-> <<>>],
     [isError |-> FALSE, nullish |-> TRUE, message |-> <<>>]}

ApiOutcomes ==
    {[label |-> "text", threw |-> FALSE,
      customer |-> GeneratedText, advisor |-> GeneratedText],
     [label |-> "advisorMissing", threw |-> FALSE,
      customer |-> GeneratedText, advisor |-> ""],
     [label |-> "empty", threw |-> FALSE, customer |-> "", advisor |-> ""],
     [label |-> "threw", threw |-> TRUE, customer |-> "", advisor |-> ""]}

FileLists ==
    {<<>>} \cup {<<s>> : s \in Slots}
    \cup (IF MaxFiles >= 2 THEN {<<s, t>> : s \in Slots, t \in Slots} ELSE {})

\* --------------------------------------------------------------- run state
\* A run that has not been started.  cleared records that clearSession was
\* called while the run could still act.  calls[i] is "inflight" while the i-th
\* explanation call is outstanding, then the label of the API outcome the
\* mapper used, or "skipped" when the mapper found the run stale and returned
\* the evaluation untouched; results[i] is what the i-th mapper returned.
NoRun ==
    [pc |-> "none", runId |-> Null, files |-> <<>>,
     manualData |-> DefaultManualData,
     ticker |-> FALSE, timer |-> FALSE,
     extractedProfile |-> INITIAL_PROFILE,
     calls |-> <<>>, results |-> <<>>, completedItems |-> 0,
     validation |-> "none",
     startProfile |-> INITIAL_PROFILE, startEvals |-> <<>>,
     cancelled |-> FALSE, superseded |-> FALSE, stale |-> FALSE,
     cleared |-> FALSE]

InFlight(r) == runs[r].pc \in {"validate", "extract", "explain"}

IsCurrent(r) == currentRunId = runs[r].runId

\* --------------------------------------------------------- session storage
\* sessionStorage is the tab's storage: item is what it holds under
\* STORAGE_KEY, tight says that a snapshot carrying uploaded documents does
\* not fit its quota (setItem throws), loads counts the times the page was
\* loaded in the tab, and warned says that the save effect of the last step
\* caught that exception and logged its warning.  An item is the JSON text the save effect wrote,
\* kept as the fields it has and their values; the item of kind "current"
\* is the text of the state as it is now (its fields are not written out a
\* second time), kind "absent" is no item, and kind "malformed" is a text
\* JSON.parse rejects.
StateFields ==
    {"step", "manualData", "files", "profile", "evaluations",
     "analysisStatus", "progress", "error", "lastActiveTimestamp"}

\* stateToSave of the save effect.
StateToSave ==
    [step |-> step, manualData |-> manualData, files |-> files,
     profile |-> profile, evaluations |-> evaluations,
     analysisStatus |-> analysisStatus, progress |-> progress,
     error |-> error, lastActiveTimestamp |-> lastActiveTimestamp]

\* The useState initial values of a provider constructed at time t.
DefaultState(t) ==
    [step |-> 1, manualData |-> DefaultManualData, files |-> <<>>,
     profile |-> INITIAL_PROFILE, evaluations |-> <<>>,
     analysisStatus |-> "idle", progress |-> 0, error |-> Null,
     lastActiveTimestamp |-> t]

NoValues == <<>>

CurrentItem == [kind |-> "current", has |-> {}, val |-> NoValues]
AbsentItem == [kind |-> "absent", has |-> {}, val |-> NoValues]
MalformedItem == [kind |-> "malformed", has |-> {}, val |-> NoValues]

\* What a member of manualData that holds undefined reads as.
UndefinedMember == [customerType |-> NoKind, name |-> NoName]

\* JSON.stringify of an object: a member that holds undefined is left out
\* of the text.
StringifyObject(o) ==
    [f \in {g \in DOMAIN o : o[g] # UndefinedMember[g]} |-> o[f]]

\* The object JSON.parse builds from the text of an object: a member the
\* text does not have reads as undefined.
ParseObject(text) ==
    [f \in DOMAIN UndefinedMember |->
        IF f \in DOMAIN text THEN text[f] ELSE UndefinedMember[f]]

\* JSON.stringify(stateToSave): each of the nine fields is written, none of
\* them holds undefined; null, a number, a string and an array are written
\* as they are, and manualData as the members it defines.
Stringify(state) ==
    [kind |-> "snapshot", has |-> StateFields,
     val |-> [state EXCEPT !.manualData = StringifyObject(@)]]

\* JSON.parse(saved).f for a field f the text has.
Parsed(item, f) ==
    IF f = "manualData" THEN ParseObject(item.val[f]) ELSE item.val[f]

\* The item under STORAGE_KEY, the current one written out.
StoredItem ==
    IF sessionStorage.item.kind = "current" THEN Stringify(StateToSave)
    ELSE sessionStorage.item

\* if (parsed.f) setF(parsed.f): the saved values that pass the guard.  The
\* number 0, null and the empty string do not; an object or an array
\* passes even when it is empty.
PassesGuard(f, v) ==
    CASE f \in {"step", "progress", "lastActiveTimestamp"} -> v # 0
      [] f = "error" -> v # Null /\ v # EmptyMsg
      [] f = "analysisStatus" -> v # ""
      [] OTHER -> TRUE

\* The value field f has after the hydrate effect found item: getItem gives
\* null for no item, JSON.parse throws on a malformed one and the effect
\* swallows that.
Restored(item, f, default) ==
    IF /\ item.kind = "snapshot"
       /\ f \in item.has
       /\ PassesGuard(f, Parsed(item, f))
    THEN Parsed(item, f)
    ELSE default

\* The state of a provider constructed at time t once its hydrate effect
\* has run on item.
Hydrate(item, t) ==
    [f \in StateFields |-> Restored(item, f, DefaultState(t)[f])]

\* Items the save effect of this build did not write: no item, a text that
\* is not JSON, an empty object, and a snapshot with three of the fields.
ForeignItems ==
    {AbsentItem, MalformedItem,
     [Stringify(DefaultState(1)) EXCEPT !.has = {}],
     [Stringify([DefaultState(1) EXCEPT !.step = 2]) EXCEPT
         !.has = {"step", "progress", "error"}]}

\* The save effect after a handler.  It runs when one of the nine values of
\* its dependency list differs from the one of the previous render; stored
\* says that the handler stored a new object in manualData, files, profile
\* or evaluations, which differs from the old one whatever it holds.  A
\* snapshot that fits is written, and the item is the current one.  A
\* snapshot that does not fit makes setItem throw; the effect catches
\* that and logs a warning, and the item stays what it was before the
\* handler changed the state.  When the effect does not run the item stays
\* as it is.
SaveEffect(stored) ==
    sessionStorage' =
        IF ~stored /\ StateToSave' = StateToSave
        THEN [sessionStorage EXCEPT !.warned = FALSE]
        ELSE IF sessionStorage.tight /\ files' # <<>>
        THEN [sessionStorage EXCEPT !.item = StoredItem, !.warned = TRUE]
        ELSE [sessionStorage EXCEPT !.item = CurrentItem, !.warned = FALSE]

\* clearSession: removeItem, and then the save effect, which always runs
\* because clearSession stores new manualData, files and evaluations
\* objects; the cleared state has no documents, so its snapshot fits.
RemoveItem ==
    sessionStorage' =
        [sessionStorage EXCEPT !.item = CurrentItem, !.warned = FALSE]

\* ------------------------------------------------------------------- Init
\* The provider after construction and hydration, and after the upload of
\* the documents: the form is the default one and no run has been started.
\* When the documents do not fit the storage quota, the item is still the
\* snapshot of the initial state, which the save effect wrote on mount.
InitState ==
    /\ step = 1
    /\ manualData = DefaultManualData
    /\ files \in FileLists
    /\ profile = INITIAL_PROFILE
    /\ evaluations = <<>>
    /\ analysisStatus = "idle"
    /\ progress = 0
    /\ error = Null
    /\ currentRunId = Null
    /\ now = 1
    /\ runs = [r \in RunIx |-> NoRun]
    /\ nStarted = 0
    /\ risk = NoRisk
    /\ lastActiveTimestamp = now
    /\ ticked = 0
    /\ \E tight \in BOOLEAN :
          sessionStorage =
              [tight |-> tight, loads |-> 1,
               warned |-> tight /\ files # <<>>,
               item |-> IF tight /\ files # <<>>
                        THEN Stringify(DefaultState(now))
                        ELSE CurrentItem]

Init ==
    /\ runLimit = MaxRuns
    /\ InitState
    /\ ~sessionStorage.tight
    /\ ticksLeft = MaxTicks

\* ----------------------------------------------------------------- actions
\* setManualData(prev => ({ ...prev, ...data })).
UpdateManualData(data) ==
    /\ UNCHANGED risk
    /\ ticked' = 0
    /\ manualData' = [f \in DOMAIN manualData |->
                        IF f \in DOMAIN data THEN data[f]
                        ELSE manualData[f]]
    /\ UNCHANGED << step, files, profile, evaluations, analysisStatus,
                    progress, error, currentRunId, now, runs, nStarted,
                    runLimit, ticksLeft >>
    /\ lastActiveTimestamp' = now
    /\ SaveEffect(TRUE)

UpdateFiles(fs) ==
    /\ UNCHANGED risk
    /\ ticked' = 0
    /\ files' = fs
    /\ UNCHANGED << step, manualData, profile, evaluations, analysisStatus,
                    progress, error, currentRunId, now, runs, nStarted,
                    runLimit, ticksLeft >>
    /\ lastActiveTimestamp' = now
    /\ SaveEffect(TRUE)

SetStep(s) ==
    /\ UNCHANGED risk
    /\ ticked' = 0
    /\ step' = s
    /\ UNCHANGED << manualData, files, profile, evaluations, analysisStatus,
                    progress, error, currentRunId, now, runs, nStarted,
                    runLimit, ticksLeft >>
    /\ lastActiveTimestamp' = lastActiveTimestamp
    /\ SaveEffect(FALSE)

\* Marks the in-flight runs whose identifier stops being the current one.
Invalidate(byCancel, newId) ==
    [r \in RunIx |->
        IF InFlight(r) /\ runs[r].runId # newId
        THEN [runs[r] EXCEPT
                !.stale = TRUE,
                !.cancelled = @ \/ (byCancel /\ IsCurrent(r))]
        ELSE runs[r]]

\* A run that can still act: it is awaiting a collaborator, or it has
\* succeeded and its auto-advance timer is pending.
CanAct(r) == InFlight(r) \/ runs[r].timer

ClearSession ==
    /\ UNCHANGED risk
    /\ ticked' = 0
    /\ step' = 1
    /\ manualData' = DefaultManualData
    /\ files' = <<>>
    /\ profile' = INITIAL_PROFILE
    /\ evaluations' = <<>>
    /\ analysisStatus' = "idle"
    /\ progress' = 0
    /\ error' = Null
    /\ currentRunId' = Null
    /\ runs' = [r \in RunIx |->
                    IF CanAct(r)
                    THEN [Invalidate(FALSE, Null)[r] EXCEPT !.cleared = TRUE]
                    ELSE runs[r]]
    /\ UNCHANGED << now, nStarted, runLimit, ticksLeft >>
    /\ lastActiveTimestamp' = now
    /\ RemoveItem

CancelAnalysis ==
    /\ UNCHANGED risk
    /\ ticked' = 0
    /\ IF analysisStatus = "running"
       THEN /\ currentRunId' = Null
            /\ analysisStatus' = "idle"
            /\ progress' = 0
            /\ runs' = Invalidate(TRUE, Null)
       ELSE UNCHANGED << currentRunId, analysisStatus, progress, runs >>
    /\ UNCHANGED << step, manualData, files, profile, evaluations, error,
                    now, nStarted, runLimit, ticksLeft >>
    /\ lastActiveTimestamp' = lastActiveTimestamp
    /\ SaveEffect(FALSE)

\* runAnalysis up to its first await: the identifier is the clock reading,
\* and dt is the time that passed since the previous start.
RunAnalysis(dt) ==
    /\ UNCHANGED risk
    /\ ticked' = 0
    /\ nStarted < runLimit
    /\ nStarted = 0 => dt = 1
    /\ LET r == nStarted + 1
           id == <<now + dt>>
           marked == [q \in RunIx |->
                        IF InFlight(q)
                        THEN [runs[q] EXCEPT
                                !.superseded = TRUE,
                                !.stale = @ \/ (runs[q].runId # id)]
                        ELSE runs[q]]
       IN  /\ now' = now + dt
           /\ currentRunId' = id
           /\ nStarted' = r
           /\ runs' = [marked EXCEPT ![r] =
                        [NoRun EXCEPT
                            !.pc = "validate",
                            !.runId = id,
                            !.files = files,
                            !.manualData = manualData,
                            !.ticker = TRUE,
                            !.startProfile = profile,
                            !.startEvals = evaluations]]
    /\ analysisStatus' = "running"
    /\ error' = Null
    /\ progress' = 0
    /\ UNCHANGED << step, manualData, files, profile, evaluations, runLimit,
                    ticksLeft >>
    /\ lastActiveTimestamp' = now'
    /\ SaveEffect(FALSE)

\* A run whose closure holds nothing that can still act: runAnalysis has
\* returned, the ticker is cleared and no auto-advance timer is pending.
Finished == [NoRun EXCEPT !.pc = "ended"]

\* What the catch and finally blocks leave of run r.
Ended(r) == Finished

\* catch (err) { ... } finally { clearInterval(progressInterval) } for a value
\* thrown by a collaborator or by the validation check.  Of null and of
\* undefined the read of err.message throws inside the catch block of a
\* current run: nothing is set, and the promise of runAnalysis rejects.
Catch(r, err) ==
    /\ IF IsCurrent(r)
       THEN IF err.nullish
            THEN UNCHANGED << analysisStatus, error >>
            ELSE IF err.message = CancelledMsg
            THEN /\ analysisStatus' = "idle"
                 /\ UNCHANGED error
            ELSE /\ error' = Classify(err)
                 /\ analysisStatus' = "failed"
       ELSE UNCHANGED << analysisStatus, error >>
    /\ UNCHANGED << step, manualData, files, profile, evaluations, progress,
                    currentRunId, now, nStarted, runLimit, ticksLeft >>

\* if (currentRunId.current !== runId) throw new Error("Cancelled"): the catch
\* block finds the run stale and writes nothing.
ExitStale ==
    UNCHANGED << step, manualData, files, profile, evaluations,
                 analysisStatus, progress, error, currentRunId, now,
                 nStarted, runLimit, ticksLeft >>

Mismatch(resp) ==
    \E i \in DOMAIN resp :
        (~resp[i].nameMatchesDeclared) \/ (~resp[i].typeMatchesSlot)

\* Every uploaded document has its entry in the response, in upload order.
Covers(resp, fs) ==
    /\ Len(resp) >= Len(fs)
    /\ \A i \in DOMAIN fs : resp[i].slotKey = fs[i]

\* validateDocuments resolves; the run checks the findings and calls the
\* Profile Extractor.
ValidateReturn(r, resp) ==
    /\ UNCHANGED risk
    /\ ticked' = 0
    /\ runs[r].pc = "validate"
    /\ LET seen == IF Mismatch(resp) THEN "mismatch"
                   ELSE IF Covers(resp, runs[r].files) THEN "clean"
                   ELSE "partial"
           errs == ValidationErrors(resp, runs[r].manualData)
       IN  IF ~IsCurrent(r)
           THEN /\ runs' = [runs EXCEPT ![r] = Ended(r)]
                /\ ExitStale
           ELSE IF Len(errs) > 0
           THEN /\ runs' = [runs EXCEPT ![r] = Ended(r)]
                /\ Catch(r, [isError |-> TRUE, nullish |-> FALSE,
                             message |-> ValidationMessage(errs)])
           ELSE /\ progress' = Pct(30)
                /\ runs' = [runs EXCEPT ![r] =
                              [@ EXCEPT !.pc = "extract",
                                        !.files = <<>>,
                                        !.validation = seen]]
                /\ UNCHANGED << step, manualData, files, profile,
                                evaluations, analysisStatus, error,
                                currentRunId, now, nStarted, runLimit,
                                ticksLeft >>
    /\ lastActiveTimestamp' = lastActiveTimestamp
    /\ SaveEffect(FALSE)

\* validateDocuments rejects (the API call failed, or the response could not
\* be read).
ValidateThrow(r, err) ==
    /\ UNCHANGED risk
    /\ ticked' = 0
    /\ runs[r].pc = "validate"
    /\ runs' = [runs EXCEPT ![r] = Ended(r)]
    /\ Catch(r, err)
    /\ lastActiveTimestamp' = lastActiveTimestamp
    /\ SaveEffect(FALSE)

\* await Promise.all(...) has resolved: publish, or find the run stale.  The
\* caller says what happens to profile.  Of a run that succeeded the record
\* keeps what its auto-advance timer reads, and how its calls ended.
Join(r, last, results) ==
    IF IsCurrent(r)
    THEN /\ evaluations' = results
         /\ progress' = Pct(100)
         /\ analysisStatus' = "success"
         /\ runs' = [runs EXCEPT ![r] =
                       [Finished EXCEPT !.runId = last.runId,
                                        !.timer = TRUE,
                                        !.calls = last.calls,
                                        !.cancelled = last.cancelled,
                                        !.superseded = last.superseded,
                                        !.stale = last.stale,
                                        !.cleared = last.cleared]]
         /\ UNCHANGED << step, manualData, files, error, currentRunId, now,
                         nStarted, runLimit, ticksLeft >>
    ELSE /\ runs' = [runs EXCEPT ![r] = Ended(r)]
         /\ UNCHANGED << step, manualData, files, evaluations,
                         analysisStatus, progress, error, currentRunId, now,
                         nStarted, runLimit, ticksLeft >>

\* extractProfileFromDocs resolves; the run publishes the profile and the
\* scored products and issues one explanation call per product.
ExtractReturn(r, extracted) ==
    /\ UNCHANGED risk
    /\ ticked' = 0
    /\ runs[r].pc = "extract"
    /\ IF ~IsCurrent(r)
       THEN /\ runs' = [runs EXCEPT ![r] = Ended(r)]
            /\ ExitStale
       ELSE LET extractedProfile == MergeProfile(runs[r].manualData, extracted)
                initialEvals == InitialEvals(extractedProfile)
                started == [runs[r] EXCEPT
                              !.pc = "explain",
                              !.manualData = DefaultManualData,
                              !.validation = "none",
                              !.extractedProfile = extractedProfile,
                              !.calls = [i \in DOMAIN initialEvals |-> "inflight"],
                              !.results = initialEvals]
            IN  IF Len(initialEvals) = 0
                THEN /\ profile' = extractedProfile
                     /\ Join(r, started, initialEvals)
                ELSE /\ profile' = extractedProfile
                     /\ evaluations' = initialEvals
                     /\ progress' = Pct(70)
                     /\ runs' = [runs EXCEPT ![r] = started]
                     /\ UNCHANGED << step, manualData, files, analysisStatus,
                                     error, currentRunId, now, nStarted,
                                     runLimit, ticksLeft >>
    /\ lastActiveTimestamp' = IF runs'[r].timer THEN now
                               ELSE lastActiveTimestamp
    /\ SaveEffect(IsCurrent(r))

ExtractThrow(r, err) ==
    /\ UNCHANGED risk
    /\ ticked' = 0
    /\ runs[r].pc = "extract"
    /\ runs' = [runs EXCEPT ![r] = Ended(r)]
    /\ Catch(r, err)
    /\ lastActiveTimestamp' = lastActiveTimestamp
    /\ SaveEffect(FALSE)

\* A join that resolves as soon as one mapper has returned; C12 tells it
\* from Promise.all.
AnySettled(calls) == \E j \in DOMAIN calls : calls[j] # "inflight"

\* Promise.all over the mappers resolves when every one of them has returned.
AllSettled(calls) == \A j \in DOMAIN calls : calls[j] # "inflight"

\* One generateExplanations call settles; the mapper of item i continues, and
\* when it is the last one the run goes on past Promise.all.
ExplainReturn(r, i, api) ==
    /\ UNCHANGED risk
    /\ ticked' = 0
    /\ runs[r].pc = "explain"
    /\ i \in DOMAIN runs[r].calls
    /\ runs[r].calls[i] = "inflight"
    /\ LET explanations == GenerateExplanations(api)
           totalItems == Len(runs[r].results)
           completedItems == runs[r].completedItems + 1
           after == IF IsCurrent(r)
                    THEN [runs[r] EXCEPT
                            !.calls[i] = api.label,
                            !.completedItems = completedItems,
                            !.results[i] = Enrich(@, explanations)]
                    ELSE [runs[r] EXCEPT !.calls[i] = "skipped"]
           allDone == AllSettled(after.calls)
       IN  IF allDone
           THEN /\ Join(r, after, after.results)
                /\ UNCHANGED profile
           ELSE /\ runs' = [runs EXCEPT ![r] = after]
                /\ progress' = IF IsCurrent(r)
                               THEN ExplanationProgress(completedItems, totalItems)
                               ELSE progress
                /\ UNCHANGED << step, manualData, files, profile, evaluations,
                                analysisStatus, error, currentRunId, now,
                                nStarted, runLimit, ticksLeft >>
    /\ lastActiveTimestamp' = IF runs'[r].timer THEN now
                               ELSE lastActiveTimestamp
    /\ SaveEffect(runs'[r].timer)

\* The 400 ms progress ticker of run r fires.
TickerFire(r) ==
    /\ UNCHANGED risk
    /\ runs[r].ticker
    /\ IF ~IsCurrent(r)
       THEN /\ runs' = [runs EXCEPT ![r].ticker = FALSE]
            /\ ticked' = 0
            /\ UNCHANGED << progress, ticksLeft >>
       ELSE /\ ticksLeft # 0
            /\ ticked' = r
            /\ progress' = TickerUpdate(progress)
            /\ ticksLeft' = IF ticksLeft > 0 THEN ticksLeft - 1 ELSE ticksLeft
            /\ UNCHANGED runs
    /\ UNCHANGED << step, manualData, files, profile, evaluations,
                    analysisStatus, error, currentRunId, now, nStarted,
                    runLimit >>
    /\ lastActiveTimestamp' = lastActiveTimestamp
    /\ SaveEffect(FALSE)

\* The 600 ms auto-advance timer of run r fires.
AutoAdvance(r) ==
    /\ UNCHANGED risk
    /\ ticked' = 0
    /\ runs[r].timer
    /\ runs' = [runs EXCEPT ![r] = Finished]
    /\ step' = IF IsCurrent(r) THEN 3 ELSE step
    /\ UNCHANGED << manualData, files, profile, evaluations, analysisStatus,
                    progress, error, currentRunId, now, nStarted, runLimit,
                    ticksLeft >>
    /\ lastActiveTimestamp' = lastActiveTimestamp
    /\ SaveEffect(FALSE)

\* Something other than the save effect of this page leaves item under
\* STORAGE_KEY before the page is loaded again.
ItemOverwritten(item) ==
    /\ sessionStorage.loads < MaxLoads
    /\ sessionStorage' =
          [sessionStorage EXCEPT !.item = item, !.warned = FALSE]
    /\ ticked' = 0
    /\ UNCHANGED << step, manualData, files, profile, evaluations,
                    analysisStatus, progress, error, currentRunId, now, runs,
                    nStarted, runLimit, ticksLeft, risk,
                    lastActiveTimestamp >>

\* The page is loaded again in the same tab.  Every closure and timer of
\* the old page is gone; a new provider is constructed with currentRunId
\* null, its hydrate effect reads the item, and its save effect writes the
\* initial state and then, if it fits, the hydrated one.
Reload ==
    /\ UNCHANGED risk
    /\ ticked' = 0
    /\ sessionStorage.loads < MaxLoads
    /\ LET hydrated == Hydrate(StoredItem, now)
       IN  /\ step' = hydrated.step
           /\ manualData' = hydrated.manualData
           /\ files' = hydrated.files
           /\ profile' = hydrated.profile
           /\ evaluations' = hydrated.evaluations
           /\ analysisStatus' = hydrated.analysisStatus
           /\ progress' = hydrated.progress
           /\ error' = hydrated.error
           /\ lastActiveTimestamp' = hydrated.lastActiveTimestamp
    /\ currentRunId' = Null
    /\ runs' = [r \in RunIx |->
                  IF runs[r].pc = "none" THEN NoRun ELSE Finished]
    /\ UNCHANGED << now, nStarted, runLimit, ticksLeft >>
    /\ sessionStorage' =
          [sessionStorage EXCEPT
              !.loads = @ + 1,
              !.warned = sessionStorage.tight /\ files' # <<>>,
              !.item = IF sessionStorage.tight /\ files' # <<>>
                       THEN Stringify(DefaultState(now))
                       ELSE CurrentItem]

\* What a collaborator call of run r is taken to settle with, out of
\* values.  A run that is no longer current discards the settlement
\* unread, so one value stands for all of them.
Settled(r, values) ==
    IF IsCurrent(r) THEN values ELSE {CHOOSE v \in values : TRUE}

\* The run lifecycle: starts, cancellation, reset, collaborator settlements
\* and the two timers.
Next ==
    \/ ClearSession
    \/ CancelAnalysis
    \/ \E dt \in 0 .. 1 : RunAnalysis(dt)
    \/ \E r \in RunIx :
          /\ runs[r].pc = "validate"
          /\ \E resp \in Settled(r, ValidationResponses) :
                ValidateReturn(r, resp)
    \/ \E r \in RunIx :
          /\ runs[r].pc = "validate"
          /\ \E err \in Settled(r, ThrownValues) : ValidateThrow(r, err)
    \/ \E r \in RunIx :
          /\ runs[r].pc = "extract"
          /\ \E k \in Settled(r, Kinds) :
                ExtractReturn(r, [customerType |-> k, data |-> r])
    \/ \E r \in RunIx :
          /\ runs[r].pc = "extract"
          /\ \E err \in Settled(r, ThrownValues) : ExtractThrow(r, err)
    \/ \E r \in RunIx :
          /\ runs[r].pc = "explain"
          /\ \E i \in 1 .. Len(DEMO_PRODUCTS) :
                \E api \in Settled(r, ApiOutcomes) : ExplainReturn(r, i, api)
    \/ \E r \in RunIx : TickerFire(r)
    \/ \E r \in RunIx : AutoAdvance(r)

Spec == Init /\ [][Next]_vars

\* Runs that overlap: a start while earlier runs are still in flight.
InitRace ==
    /\ runLimit = RaceRuns
    /\ InitState
    /\ ~sessionStorage.tight
    /\ ticksLeft = MaxTicks

SpecRace == InitRace /\ [][Next]_vars

\* One run in a session the user keeps editing, with the ticker free to fire
\* as often as the collaborators' latency allows.
InitSession ==
    /\ runLimit = SessionRuns
    /\ InitState
    /\ ~sessionStorage.tight
    /\ ticksLeft = -1

NextSession ==
    \/ Next
    \/ \E k \in Kinds : UpdateManualData([customerType |-> k])
    \/ \E n \in Names : UpdateManualData([name |-> n])
    \/ \E fs \in FileLists : UpdateFiles(fs)
    \/ \E s \in 1 .. 3 : SetStep(s)

SpecSession == InitSession /\ [][NextSession]_vars

\* One run whose customer kind keeps changing on the form, before the start
\* and while the run is in flight, to one of the two kinds or to none
\* (updateManualData takes a Partial<CustomerProfile>).  The ticker only
\* ever finds its run stale here; its effect on progress is the subject of
\* Spec and SpecSession.
InitKind ==
    /\ runLimit = MaxRuns
    /\ InitState
    /\ ~sessionStorage.tight
    /\ files = <<>>
    /\ ticksLeft = 0

NextKind ==
    \/ Next
    \/ \E k \in Kinds \cup {NoKind} : UpdateManualData([customerType |-> k])

SpecKind == InitKind /\ [][NextKind]_vars

\* A tab in which the page is loaded more than once, with documents that
\* may not fit the storage quota.  A run is started only when none is in
\* flight, the customer kind of the form is set, to the same kind, the
\* other one or none, before the first run, setStep is called with 0 to
\* 3, and the ticker only ever finds its run stale; overlapping runs and
\* the ticker's effect on progress are the subject of the other
\* specifications.
InitReload ==
    /\ runLimit = MaxRuns
    /\ InitState
    /\ ticksLeft = 0

\* The validator's findings in SpecReload: none, or one name mismatch.
ReloadResponses ==
    {<<>>,
     << [slotKey |-> "PAYSLIP", nameMatchesDeclared |-> FALSE,
         typeMatchesSlot |-> TRUE, issues |-> <<>>,
         detectedName |-> <<"A">>, expectedDocType |-> <<"PAYSLIP">>,
         detectedDocType |-> <<"PAYSLIP">>] >>}

NextReload ==
    \/ ClearSession
    \/ CancelAnalysis
    \/ \E dt \in 0 .. 1 :
          (\A r \in RunIx : ~InFlight(r)) /\ RunAnalysis(dt)
    \/ \E r \in RunIx :
          /\ runs[r].pc = "validate"
          /\ \E resp \in Settled(r, ReloadResponses) :
                ValidateReturn(r, resp)
    \/ \E r \in RunIx :
          /\ runs[r].pc = "validate"
          /\ \E err \in Settled(r, ThrownValues) : ValidateThrow(r, err)
    \/ \E r \in RunIx :
          /\ runs[r].pc = "extract"
          /\ \E k \in Settled(r, Kinds) :
                ExtractReturn(r, [customerType |-> k, data |-> r])
    \/ \E r \in RunIx :
          /\ runs[r].pc = "extract"
          /\ \E err \in Settled(r, ThrownValues) : ExtractThrow(r, err)
    \/ \E r \in RunIx :
          /\ runs[r].pc = "explain"
          /\ \E i \in 1 .. Len(DEMO_PRODUCTS) :
                \E api \in Settled(r, ApiOutcomes) : ExplainReturn(r, i, api)
    \/ \E r \in RunIx : TickerFire(r)
    \/ \E r \in RunIx : AutoAdvance(r)
    \/ \E k \in Kinds \cup {NoKind} :
          nStarted = 0 /\ UpdateManualData([customerType |-> k])
    \/ \E s \in 0 .. 3 : SetStep(s)
    \/ \E item \in ForeignItems : ItemOverwritten(item)
    \/ Reload

SpecReload == InitReload /\ [][NextReload]_vars

\* The risk engine on its own: one profile and one product are chosen and
\* evaluateProductForProfile is applied to them.
InitRisk ==
    /\ runLimit = 0
    /\ step = 1
    /\ manualData = DefaultManualData
    /\ files = <<>>
    /\ profile = INITIAL_PROFILE
    /\ evaluations = <<>>
    /\ analysisStatus = "idle"
    /\ progress = 0
    /\ error = Null
    /\ currentRunId = Null
    /\ now = 1
    /\ runs = [r \in RunIx |-> NoRun]
    /\ nStarted = 0
    /\ ticksLeft = 0
    /\ lastActiveTimestamp = now
    /\ ticked = 0
    /\ sessionStorage = [tight |-> FALSE, loads |-> 1, warned |-> FALSE,
                         item |-> CurrentItem]
    /\ \E p \in RiskProfiles : \E q \in RiskProducts :
          risk = [stage |-> "input", profile |-> p, product |-> q,
                  result |-> NoResult]

Evaluate ==
    /\ risk.stage = "input"
    /\ risk' = [risk EXCEPT
                  !.stage = "evaluated",
                  !.result = EvaluateProduct(risk.profile, risk.product)]
    /\ UNCHANGED << step, manualData, files, profile, evaluations,
                    analysisStatus, progress, error, currentRunId, now, runs,
                    nStarted, runLimit, ticksLeft, lastActiveTimestamp,
                    sessionStorage, ticked >>

NextRisk == Evaluate

SpecRisk == InitRisk /\ [][NextRisk]_vars

\* ------------------------------------------------------------------ claims
\* The page is loaded again in this step.
Reloads == sessionStorage'.loads # sessionStorage.loads

\* The step is one of run r: its start, a settlement of one of its
\* collaborator calls, a callback of its ticker (whether it finds the run
\* stale or advances progress), or its auto-advance timer.
Acted(r) ==
    /\ ~Reloads
    /\ \/ runs'[r].pc # runs[r].pc
       \/ runs'[r].calls # runs[r].calls
       \/ runs'[r].ticker # runs[r].ticker
       \/ ticked' = r
       \/ runs'[r].timer # runs[r].timer

Started(r) == runs[r].runId # Null

HoldsSentinel(ev) ==
    \/ ev.customerExplanation = PendingText
    \/ ev.advisorExplanation = PendingText

\* C1: once a run B has been started while run A was in flight, the state
\* holds no profile and no evaluation that run A produced.
C1_NoResultOfSupersededRun ==
    \A a \in RunIx :
        runs[a].superseded =>
            /\ profile.data # a
            /\ \A i \in DOMAIN evaluations : evaluations[i].scored # a

\* C2: the step in which cancelAnalysis invalidates a run leaves status idle
\* and profile and evaluations as they were when that run started.
C2_CancelRestoresPreRunState ==
    [][\A r \in RunIx :
          (~runs[r].cancelled /\ runs'[r].cancelled) =>
              /\ analysisStatus' = "idle"
              /\ profile' = runs[r].startProfile
              /\ evaluations' = runs[r].startEvals]_vars

\* C3: a run that cancelAnalysis has invalidated never again changes profile,
\* evaluations, progress, error, analysisStatus or step.
C3_CancelledRunWritesNothing ==
    [][\A r \in RunIx :
          (runs[r].cancelled /\ Acted(r)) =>
              UNCHANGED << profile, evaluations, progress, error,
                           analysisStatus, step >>]_vars

\* C4: no two started runs share a run identifier, so at most one run can
\* pass the staleness check at any moment.
C4_RunIdsDistinct ==
    /\ \A a, b \in RunIx :
          (a # b /\ Started(a) /\ Started(b)) => runs[a].runId # runs[b].runId
    /\ Cardinality({r \in RunIx : Started(r) /\ IsCurrent(r)}) <= 1

\* C5: while one run stays the current run and its status is running, no
\* step lowers progress.
C5_ProgressMonotonic ==
    [][(/\ analysisStatus = "running"
        /\ currentRunId # Null
        /\ currentRunId' = currentRunId
        /\ nStarted' = nStarted) => progress' >= progress]_vars

\* C6: progress is above 95 only when it is 100 and the status is success.
C6_ProgressCappedBelowSuccess ==
    progress > Pct(95) => (progress = Pct(100) /\ analysisStatus = "success")

\* C7: a run whose Profile Extractor call is outstanding has had its
\* Document Validator call return with an entry for every uploaded document
\* and without any name or type mismatch.
C7_ExtractionOnlyAfterCleanValidation ==
    \A r \in RunIx :
        runs[r].pc = "extract" => runs[r].validation = "clean"

\* C8: the step in which a current run ends in its validation or extraction
\* stage sets status failed and leaves profile and evaluations as they were
\* when the run started.
C8_EarlyFailureKeepsResults ==
    [][\A r \in RunIx :
          (/\ runs[r].pc \in {"validate", "extract"}
           /\ runs'[r].pc = "ended"
           /\ IsCurrent(r)) =>
              /\ analysisStatus' = "failed"
              /\ profile' = runs[r].startProfile
              /\ evaluations' = runs[r].startEvals]_vars

ExactlyOneThrew(calls) ==
    /\ Cardinality({i \in DOMAIN calls : calls[i] = "threw"}) = 1
    /\ \A i \in DOMAIN calls : calls[i] \in {"threw", "text"}

CarriesBoth(ev, text) ==
    ev.customerExplanation = text /\ ev.advisorExplanation = text

Outstanding(r) == {i \in DOMAIN runs[r].calls : runs[r].calls[i] = "inflight"}

\* C9: while another explanation call of a run is outstanding, no step
\* (the settlement of a failing call included) ends the run or settles more
\* than one of its calls;
\* a run that was never stale succeeds when its last call settles; and when
\* exactly one call failed and the others returned text, the published
\* evaluation of the failed call carries the fallback text and every other
\* one the generated text.
C9_ExplanationFailureIsolated ==
    [][\A r \in RunIx :
          /\ (/\ runs[r].pc = "explain"
              /\ Cardinality(Outstanding(r)) >= 2)
             => /\ runs'[r].pc = "explain"
                /\ Cardinality({i \in Outstanding(r) :
                                  runs'[r].calls[i] # "inflight"}) <= 1
          /\ (/\ runs[r].pc = "explain"
              /\ runs'[r].pc = "ended"
              /\ IsCurrent(r)
              /\ ~runs[r].stale)
             => /\ analysisStatus' = "success"
                /\ DOMAIN evaluations' = DOMAIN runs[r].calls
                /\ DOMAIN runs'[r].calls = DOMAIN runs[r].calls
                /\ ExactlyOneThrew(runs'[r].calls) =>
                      \A i \in DOMAIN evaluations' :
                          IF runs'[r].calls[i] = "threw"
                          THEN CarriesBoth(evaluations'[i], CouldNotGenerateText)
                          ELSE CarriesBoth(evaluations'[i], GeneratedText)]_vars

C9_Witness ==
    \E r \in RunIx :
        /\ runs[r].pc = "ended"
        /\ runs[r].timer
        /\ ~runs[r].stale
        /\ ExactlyOneThrew(runs[r].calls)
        /\ analysisStatus = "success"
        /\ \E i \in DOMAIN evaluations :
              CarriesBoth(evaluations[i], CouldNotGenerateText)
        /\ \E i \in DOMAIN evaluations :
              CarriesBoth(evaluations[i], GeneratedText)

\* C10: whenever the status is success, no published evaluation still holds
\* the pending sentinel in either explanation field.
C10_NoSentinelOnSuccess ==
    analysisStatus = "success" =>
        \A i \in DOMAIN evaluations : ~HoldsSentinel(evaluations[i])

\* C11: the step in which a run issues its explanation calls has written,
\* for every matching product, the scored result with both explanations
\* still pending to evaluations, with every call outstanding, and leaves the
\* status as it was: running, when no other run has been started.
C11_ScoresPublishedBeforeExplanations ==
    [][\A r \in RunIx :
          (runs[r].pc = "extract" /\ runs'[r].pc = "explain") =>
              /\ evaluations' = InitialEvals(profile')
              /\ Len(evaluations') = Len(RelevantProducts(profile'))
              /\ \A i \in DOMAIN evaluations' :
                    /\ CarriesBoth(evaluations'[i], PendingText)
                    /\ evaluations'[i].scored = profile'.data
                    /\ runs'[r].calls[i] = "inflight"
              /\ DOMAIN runs'[r].calls = DOMAIN evaluations'
              /\ analysisStatus' = analysisStatus
              /\ nStarted = 1 => analysisStatus' = "running"]_vars

C11_Witness ==
    \E r \in RunIx :
        /\ runs[r].pc = "explain"
        /\ IsCurrent(r)
        /\ analysisStatus = "running"
        /\ Len(evaluations) = 2
        /\ \A i \in DOMAIN evaluations :
              /\ CarriesBoth(evaluations[i], PendingText)
              /\ runs[r].calls[i] = "inflight"

\* Run r publishes its final result in this step.
Publishes(r) == runs[r].pc \in {"extract", "explain"} /\ runs'[r].timer

\* C12: the step in which a run publishes its final result is the one in
\* which its last explanation call returns: no call of the run is
\* outstanding afterwards, evaluations holds one result per call, progress
\* is 100 and status is success.  Status becomes success, and progress 100,
\* only in such a step, and a run that has published has no outstanding
\* call; with one run started, no state has status success while a call is
\* outstanding.
C12_SuccessOnlyAfterAllExplanations ==
    [][/\ \A r \in RunIx :
             Publishes(r) =>
                 /\ Cardinality(Outstanding(r)) <= 1
                 /\ \A i \in DOMAIN runs'[r].calls :
                       runs'[r].calls[i] # "inflight"
                 /\ DOMAIN evaluations' = DOMAIN runs'[r].calls
                 /\ progress' = Pct(100)
                 /\ analysisStatus' = "success"
       /\ ((analysisStatus' = "success" /\ analysisStatus # "success")
           \/ (progress' = Pct(100) /\ progress # Pct(100)))
          => \E r \in RunIx : Publishes(r)
       /\ \A r \in RunIx :
             runs'[r].timer =>
                 \A i \in DOMAIN runs'[r].calls : runs'[r].calls[i] # "inflight"
       /\ (nStarted' = 1 /\ analysisStatus' = "success")
          => \A r \in RunIx :
                \A i \in DOMAIN runs'[r].calls : runs'[r].calls[i] # "inflight"
      ]_vars

C12_Witness ==
    \E r \in RunIx :
        /\ runs[r].timer
        /\ Len(runs[r].calls) = 2
        /\ \A i \in DOMAIN runs[r].calls : runs[r].calls[i] # "inflight"
        /\ analysisStatus = "success"
        /\ progress = Pct(100)
        /\ Len(evaluations) = 2

\* C13: the step in which a current run ends because a stage raised an
\* error sets status failed and a non-null error, whatever the error says.
C13_AnyErrorFailsTheRun ==
    [][\A r \in RunIx :
          (/\ runs[r].pc \in {"validate", "extract"}
           /\ runs'[r].pc = "ended"
           /\ ~runs'[r].timer
           /\ IsCurrent(r)) =>
              /\ analysisStatus' = "failed"
              /\ error' # Null]_vars

CategoryMessages == {GenericMsg, ApiKeyMsg, BadRequestMsg, ServerErrorMsg}

\* C14: the error of a failed run is the generic message, one of the three
\* category messages, or the aggregated validation message; never the raw
\* text of a collaborator fault.
C14_NoRawErrorText ==
    (analysisStatus = "failed" /\ error # Null) =>
        \/ error \in CategoryMessages
        \/ Head(error) = "Document Validation Failed:"

\* C15: when a current run's validation collects issues, the committed
\* error is the aggregated bulleted message listing every collected issue
\* in validator order, unchanged.
C15_ValidationMessageVerbatim ==
    [][\A r \in RunIx : \A resp \in ValidationResponses :
          (/\ ValidateReturn(r, resp)
           /\ IsCurrent(r)
           /\ Len(ValidationErrors(resp, runs[r].manualData)) > 0) =>
              /\ analysisStatus' = "failed"
              /\ error' = ValidationMessage(
                             ValidationErrors(resp, runs[r].manualData))]_vars

\* Every collaborator call that is outstanding eventually returns or raises.
Settles ==
    \/ \E r \in RunIx :
          /\ runs[r].pc = "validate"
          /\ \E resp \in Settled(r, ValidationResponses) :
                ValidateReturn(r, resp)
    \/ \E r \in RunIx :
          /\ runs[r].pc = "validate"
          /\ \E err \in Settled(r, ThrownValues) : ValidateThrow(r, err)
    \/ \E r \in RunIx :
          /\ runs[r].pc = "extract"
          /\ \E k \in Settled(r, Kinds) :
                ExtractReturn(r, [customerType |-> k, data |-> r])
    \/ \E r \in RunIx :
          /\ runs[r].pc = "extract"
          /\ \E err \in Settled(r, ThrownValues) : ExtractThrow(r, err)
    \/ \E r \in RunIx :
          /\ runs[r].pc = "explain"
          /\ \E i \in 1 .. Len(DEMO_PRODUCTS) :
                \E api \in Settled(r, ApiOutcomes) : ExplainReturn(r, i, api)

SpecLive == Init /\ [][Next]_vars /\ WF_vars(Settles)

\* C16: a run that is started and is neither cancelled nor superseded nor
\* cleared eventually ends with status success or failed.
C16_RunEndsInOneOutcome ==
    (analysisStatus = "running") ~>
        \/ analysisStatus \in {"success", "failed"}
        \/ currentRunId = Null
        \/ nStarted > 1

\* The rule as stated, not the code: constraint c is defined on product q,
\* whatever its limit, and the value of profile p, a missing value taken as
\* 0, fails against it.
Violated(c, p, q) ==
    LET limit == q.constraints[c]
        value == OrZero(p[ConstraintField[c]])
    IN  /\ limit # Missing
        /\ IF IsMax(c) THEN value > limit ELSE value < limit

RECURSIVE ViolationReasons(_, _, _)
ViolationReasons(p, q, cs) ==
    IF cs = <<>> THEN <<>>
    ELSE (IF Violated(Head(cs), p, q)
          THEN << Reason(Head(cs), q.constraints[Head(cs)]) >>
          ELSE <<>>)
         \o ViolationReasons(p, q, Tail(cs))

\* Product q with the limit of constraint c moved just past the value of
\* profile p, so that p violates c.
Tightened(c, p, q) ==
    LET value == OrZero(p[ConstraintField[c]])
    IN  [q EXCEPT !.constraints[c] = IF IsMax(c) THEN value - 1 ELSE value + 1]

\* C17: the result is eligible exactly when no constraint is violated; an
\* ineligible result lists one reason for every violated constraint, in the
\* order of the constraints; and violating one more constraint of an
\* ineligible pair keeps it ineligible and adds exactly the reason of that
\* constraint, the others staying in place.
C17_EveryViolationReported ==
    risk.stage = "evaluated" =>
        LET p == risk.profile
            q == risk.product
            res == risk.result
        IN  /\ res.eligible <=> (\A c \in ConstraintNames : ~Violated(c, p, q))
            /\ ~res.eligible =>
                  res.reasons = ViolationReasons(p, q, ConstraintOrder)
            /\ ~res.eligible =>
                  \A c \in ConstraintNames :
                      (/\ ~Violated(c, p, q)
                       /\ IsMax(c) => OrZero(p[ConstraintField[c]]) >= 1) =>
                          LET more == EvaluateProduct(p, Tightened(c, p, q))
                          IN  /\ ~more.eligible
                              /\ Len(more.reasons) = Len(res.reasons) + 1
                              /\ SelectSeq(more.reasons,
                                     LAMBDA x : x.constraint # c) = res.reasons
                              /\ \E i \in DOMAIN more.reasons :
                                    more.reasons[i].constraint = c

\* C18: every constraint that is defined on the product, whatever its
\* limit, and that the profile value (missing taken as 0) fails against,
\* makes the result ineligible and puts its reason, citing the limit, into
\* the reasons.
C18_DefinedLimitIsCompared ==
    risk.stage = "evaluated" =>
        \A c \in ConstraintNames :
            Violated(c, risk.profile, risk.product) =>
                /\ ~risk.result.eligible
                /\ risk.result.decision = "DECLINE"
                /\ \E i \in DOMAIN risk.result.reasons :
                      risk.result.reasons[i] =
                          Reason(c, risk.product.constraints[c])

\* The values a profile field takes when it is present.
PresentValues ==
    [age |-> {20, 30},
     monthlyIncome |-> {3000, 6000, 7280, 12000},
     averageMonthlyRevenue |-> {1000, 27500, 50000},
     businessAgeMonths |-> {12, 36},
     debtToIncomeRatio |-> {0, 18, 45, 70},
     dscr |-> {110, 150},
     bouncedChequesLast12Months |-> 0 .. MaxCount,
     latePaymentIncidentsLast12Months |-> 0 .. MaxCount,
     totalCreditCardUtilization |-> {0, 60}]

\* The rule as stated, not the code: the two-threshold ramp of a present
\* raw value, the bad anchor standing in for a missing one only.
RampValue(rawValue, m) ==
    NormalizedValue(IF rawValue = Missing THEN m.bad ELSE rawValue, m)

\* The rule as stated: the weight and the value of each weighted metric, a
\* present value taken as it is.
RampCalls(p, q) ==
    [i \in DOMAIN Metrics |->
        LET w == q.weights[Metrics[i].weight]
            rawValue == p[Metrics[i].field]
        IN  IF Weighted(w)
            THEN [weight |-> w,
                  val |-> IF rawValue = Missing THEN Metrics[i].bad
                          ELSE rawValue]
            ELSE NoCall]

\* The weighted mean of the ramp values, computed once for each profile and
\* product.
RampMeans ==
    [calls \in {RampCalls(p, q) : p \in RiskProfiles, q \in RiskProducts} |->
        FinalScoreOf(calls)]

RampMean(p, q) == RampMeans[RampCalls(p, q)]

\* C19: the score is the weighted mean of the ramp values of the weighted
\* metrics, where a present raw value, 0 included, is ramped as it is and
\* only a missing one is replaced by the bad anchor.
C19_PresentValueIsRamped ==
    risk.stage = "evaluated" =>
        LET p == risk.profile
            q == risk.product
        IN  /\ \A i \in DOMAIN Metrics :
                  (/\ Weighted(q.weights[Metrics[i].weight])
                   /\ p[Metrics[i].field] # Missing) =>
                      MetricScore(p, Metrics[i]) =
                          RampValue(p[Metrics[i].field], Metrics[i])
            /\ risk.result.finalScore = RampMean(p, q)

\* C20: lowering the present raw value of a weighted lower-is-better
\* metric, or raising that of a higher-is-better one, never lowers the
\* normalized value of the metric nor the score.
C20_NormalizationMonotonic ==
    risk.stage = "evaluated" =>
        LET p == risk.profile
            q == risk.product
        IN  \A i \in DOMAIN Metrics :
                LET m == Metrics[i]
                    rawValue == p[m.field]
                IN  (Weighted(q.weights[m.weight]) /\ rawValue # Missing) =>
                        \A v \in PresentValues[m.field] :
                            (IF m.higherBetter THEN v > rawValue
                             ELSE v < rawValue) =>
                                LET better == [p EXCEPT ![m.field] = v]
                                IN  /\ DLeq(MetricScore(p, m),
                                            MetricScore(better, m))
                                    /\ DLeq(risk.result.finalScore,
                                            FinalScore(better, q))

\* The rule as stated: the weighted mean of the ramp values over the
\* metrics with a non-zero weight, 0 when there is none, rounded to two
\* decimals.
RuleScore(p, q) == ToFixed2(RampMean(p, q))

\* C21: the reported score is the weighted mean of the normalized values over
\* the metrics with a non-zero weight, is 0 when no weight is configured or
\* all weights are zero, lies between 0 and 1, and is the same with and
\* without the product's hard constraints.
C21_ScoreIsWeightedMean ==
    risk.stage = "evaluated" =>
        LET p == risk.profile
            q == risk.product
            res == risk.result
        IN  /\ res.score = RuleScore(p, q)
            /\ (\A w \in WeightNames : ~Weighted(q.weights[w])) =>
                  res.score = 0
            /\ res.score \in 0 .. 100
            /\ res.score =
                  EvaluateProduct(p, [q EXCEPT !.constraints = NoConstraints]).score

ScoreReasons == {BorderlineReason, LowScoreReason}

\* C22: an ineligible result is a DECLINE whose summary names the first
\* violated constraint and whose reasons hold no score reason; an eligible
\* result is APPROVE with no reasons when the score reaches the approve
\* threshold, REVIEW with the one reason "Borderline Score" when it reaches
\* only the review threshold, and DECLINE with the one reason "Low Score"
\* below that; with both thresholds 0 every eligible result is APPROVE.
C22_DecisionRule ==
    risk.stage = "evaluated" =>
        LET p == risk.profile
            q == risk.product
            res == risk.result
            approve == Double(q.thresholds.approve, 100)
            review == Double(q.thresholds.review, 100)
            violations == ViolationReasons(p, q, ConstraintOrder)
        IN  /\ ~res.eligible =>
                  /\ res.decision = "DECLINE"
                  /\ violations # <<>>
                  /\ res.summary = <<"Failed requirements:", violations[1]>>
                  /\ \A i \in DOMAIN res.reasons :
                        res.reasons[i] \notin ScoreReasons
            /\ (res.eligible /\ DLeq(approve, res.finalScore)) =>
                  res.decision = "APPROVE" /\ res.reasons = <<>>
            /\ (/\ res.eligible
                /\ DLeq(review, res.finalScore)
                /\ ~DLeq(approve, res.finalScore)) =>
                  /\ res.decision = "REVIEW"
                  /\ res.reasons = <<BorderlineReason>>
            /\ (res.eligible /\ ~DLeq(review, res.finalScore)) =>
                  /\ res.decision = "DECLINE"
                  /\ res.reasons = <<LowScoreReason>>
            /\ (/\ res.eligible
                /\ q.thresholds.approve = 0
                /\ q.thresholds.review = 0) =>
                  res.decision = "APPROVE"

\* The first worked example: income 3000, debt-to-income 0.18, age 30.
ExampleProfile ==
    [age |-> 30, monthlyIncome |-> 3000, averageMonthlyRevenue |-> Missing,
     businessAgeMonths |-> Missing, debtToIncomeRatio |-> 18,
     dscr |-> Missing, bouncedChequesLast12Months |-> Missing,
     latePaymentIncidentsLast12Months |-> Missing,
     totalCreditCardUtilization |-> Missing]

ExampleEvaluated ==
    /\ risk.stage = "evaluated"
    /\ risk.profile = ExampleProfile
    /\ risk.product.id = "prod_cc_001"

\* C23 as stated: the example profile evaluated against prod_cc_001 is
\* eligible, is decided APPROVE or REVIEW, and has no reasons.
C23_ExampleApprovedOrReviewed ==
    ExampleEvaluated =>
        /\ risk.result.eligible
        /\ risk.result.decision \in {"APPROVE", "REVIEW"}
        /\ risk.result.reasons = <<>>

\* C23: the example profile evaluated against prod_cc_001 is eligible, its
\* score is 0.4375, reported as 0.44, below the review threshold 0.5, so
\* the decision is DECLINE and the reasons are exactly "Low Score".
C23_ExampleDeclinedForLowScore ==
    ExampleEvaluated =>
        /\ risk.result.eligible
        /\ risk.result.finalScore = DFromDecimal(4375, 10000)
        /\ risk.result.score = 44
        /\ risk.result.decision = "DECLINE"
        /\ risk.result.reasons = <<LowScoreReason>>

C23_Witness ==
    /\ ExampleEvaluated
    /\ risk.result.productId = "prod_cc_001"
    /\ risk.result.eligible

\* The identifiers of the catalog products offered to customer kind k.
MatchingIds(k) ==
    {DEMO_PRODUCTS[i].id : i \in {j \in DOMAIN DEMO_PRODUCTS :
        DEMO_PRODUCTS[j].targetCustomerType \in {k, "BOTH"}}}

\* Run r writes its evaluations in this step: the scored ones after the
\* extractor returned, or the explained ones after the last explanation.
PublishesEvaluations(r) ==
    \/ runs[r].pc = "extract" /\ runs'[r].pc = "explain"
    \/ Publishes(r)

\* C24: the evaluations a run publishes hold exactly one result for each
\* catalog product offered to the customer kind of the profile the run
\* committed and none for any other product; catalog identifiers are
\* unique, and the run's explanation calls are one per result, so no two
\* results and no two calls share a product identifier.
C24_OneResultPerMatchingProduct ==
    [][\A r \in RunIx :
          PublishesEvaluations(r) =>
              LET committed == IF runs[r].pc = "extract" THEN profile'
                               ELSE runs[r].extractedProfile
                  ids == MatchingIds(committed.customerType)
              IN  /\ \A i, j \in DOMAIN DEMO_PRODUCTS :
                        DEMO_PRODUCTS[i].id = DEMO_PRODUCTS[j].id => i = j
                  /\ {evaluations'[i].productId : i \in DOMAIN evaluations'} = ids
                  /\ Len(evaluations') = Cardinality(ids)
                  /\ runs[r].pc = "extract" =>
                        /\ DOMAIN runs'[r].calls = DOMAIN evaluations'
                        /\ \A i \in DOMAIN evaluations' :
                              runs'[r].results[i].productId =
                                  evaluations'[i].productId]_vars

C24_Witness ==
    \E r \in RunIx :
        /\ runs[r].pc = "explain"
        /\ IsCurrent(r)
        /\ profile.customerType = "SME"
        /\ {evaluations[i].productId : i \in DOMAIN evaluations} =
              {"prod_sme_001", "prod_sme_002"}
        /\ \E i \in DOMAIN runs[r].calls : runs[r].calls[i] = "inflight"

\* C26: the customer kind of a run is fixed when the run starts: the run
\* works on the form as it is at the start, whatever the form is changed to
\* while the run is in flight, and the kind the validator was called with
\* is the kind of the profile the run commits and the kind of the products
\* the run selects.
C26_KindFixedAtStart ==
    [][\A r \in RunIx :
          /\ (runs[r].pc = "none" /\ runs'[r].pc = "validate") =>
                runs'[r].manualData = manualData
          /\ (/\ runs[r].pc \in {"validate", "extract"}
              /\ runs'[r].pc \in {"validate", "extract"}) =>
                runs'[r].manualData = runs[r].manualData
          /\ (runs[r].pc = "extract" /\ PublishesEvaluations(r)) =>
                LET kind == ValidatorKind(runs[r].manualData)
                IN  /\ profile'.customerType = kind
                    /\ {evaluations'[i].productId :
                           i \in DOMAIN evaluations'} = MatchingIds(kind)]_vars

\* The save effect of this step finds that the snapshot does not fit.
WriteFails == ~Reloads /\ sessionStorage'.warned

\* C25: a page loaded on a snapshot has every field the snapshot carries at
\* the saved value and every other field at its default, so that a snapshot
\* the save effect wrote restores all nine fields; no item and a malformed
\* item leave the initial state, error null included; and a write that
\* fails leaves the item as it was and sets no error: in that step the
\* error stays, or a start clears it, or the run's failure sets it.
C25_HydrationRestoresSnapshot ==
    [][/\ Reloads =>
             LET item == StoredItem
                 initial == DefaultState(now)
             IN  /\ item.kind = "snapshot" =>
                       \A f \in StateFields :
                           StateToSave'[f] = IF f \in item.has
                                             THEN Parsed(item, f)
                                             ELSE initial[f]
                 /\ sessionStorage.item.kind = "current" =>
                       StateToSave' = StateToSave
                 /\ item.kind \in {"absent", "malformed"} =>
                       StateToSave' = initial
       /\ WriteFails =>
             /\ sessionStorage'.item = StoredItem
             /\ \/ error' = error
                \/ error' = Null
                \/ analysisStatus' = "failed"]_vars

\* C27: whenever the status is running, currentRunId is set and a run with
\* that identifier is in flight.
C27_RunningHasARun ==
    analysisStatus = "running" =>
        /\ currentRunId # Null
        /\ \E r \in RunIx : InFlight(r) /\ IsCurrent(r)

\* C28: after every step the error is set exactly when the status is
\* failed; a start clears the error; and the error is given a value only
\* in the step in which a run ends in failure, so at most once per run.
C28_ErrorIffFailed ==
    [][/\ (error' # Null) <=> (analysisStatus' = "failed")
       /\ nStarted' # nStarted => error' = Null
       /\ (error' # error /\ error' # Null) =>
             /\ analysisStatus' = "failed"
             /\ \E r \in RunIx :
                   InFlight(r) /\ runs'[r].pc = "ended"]_vars

\* C29: for every eligible result the decision agrees with the reported,
\* two-decimal score: APPROVE exactly when that score is at least the
\* approve threshold, DECLINE exactly when it is below the review threshold.
C29_DecisionMatchesReportedScore ==
    (risk.stage = "evaluated" /\ risk.result.eligible) =>
        LET res == risk.result
            thresholds == risk.product.thresholds
        IN  /\ res.decision = "APPROVE" <=> res.score >= thresholds.approve
            /\ res.decision = "DECLINE" <=> res.score < thresholds.review

\* The fields clearSession resets.
SessionFields ==
    << step, manualData, files, profile, evaluations, analysisStatus,
       progress, error, currentRunId >>

\* C30: the step in which clearSession is called while a run can still act
\* leaves step 1, the default manualData, no files, the initial profile, no
\* evaluations, status idle, progress 0, no error and no current run; and a
\* step of a run that could still act when clearSession was called changes
\* none of these fields, so it never advances step to 3.
C30_ClearedRunWritesNothing ==
    [][\A r \in RunIx :
          /\ (~runs[r].cleared /\ runs'[r].cleared) =>
                /\ step' = 1
                /\ manualData' = DefaultManualData
                /\ files' = <<>>
                /\ profile' = INITIAL_PROFILE
                /\ evaluations' = <<>>
                /\ analysisStatus' = "idle"
                /\ progress' = 0
                /\ error' = Null
                /\ currentRunId' = Null
          /\ (runs[r].cleared /\ Acted(r)) =>
                UNCHANGED SessionFields]_vars

====
